---- MODULE Spec2Model ----
(***************************************************************************)
(* Push-button monitor (pb_monitor.c): the press-duration state machine.   *)
(*                                                                         *)
(* The main loop of main() is modelled step by step (pc), the timer signal *)
(* handler as one action that can run between any two steps of the main    *)
(* loop once the timer has expired.  Time is a clock counted in ticks of   *)
(* 1/TicksPerSec second; every clock_gettime() call of the program returns *)
(* a later reading than the previous one.                                  *)
(*                                                                         *)
(* Modelling boundary: the command buffer str_sys_call_check_factory_reset *)
(* is modelled as the string strcat() builds; the bytes strcat() writes    *)
(* past the end of the array are not modelled.  The file descriptor fd is  *)
(* never opened by main(); the result of read() is a free choice between   *)
(* an error and a batch of events.                                         *)
(*                                                                         *)
(* The polling variant pb_monitor.sh is modelled in the variable sh and    *)
(* the specification SpecSh (its IN-USE loop), at the end of the module.   *)
(***************************************************************************)
EXTENDS Integers, Sequences, FiniteSets, TLC

VARIABLES
    state,        \* enum pb_state state                      (line 78)
    timer_start,  \* struct timespec timer_start of main      (line 370)
    total_time,   \* double total_time of main, in clock ticks (line 371)
    time_start,   \* int time_start of main                   (line 366)
    str_check,    \* char str_sys_call_check_factory_reset[]  (line 85)
    marker,       \* FACTORY_RESET_FILE exists                (line 59)
    led,          \* last led_state requested through set_led.sh
    ev,           \* events of the last read() not yet handled (line 361)
    pc,           \* position of main
    now,          \* CLOCK_REALTIME, in ticks
    armed,        \* timer1 is running
    expiry,       \* next expiry of timer1, in ticks
    calls,        \* external calls made by the last step
    edge,         \* what the last step handled
    dispatched,   \* process_end_time calls made since the last read()
    branch,       \* branch taken by the last process_end_time call
    boot_marker,  \* FACTORY_RESET_FILE existed when the process started
    sh            \* the polling variant pb_monitor.sh: its variables, the
                  \* interrupt bit of register 10, the button and the LED

vars == <<state, timer_start, total_time, time_start, str_check, marker, led,
          ev, pc, now, armed, expiry, calls, edge, dispatched, branch,
          boot_marker, sh>>

\* the variables of pb_monitor.c
cvars == <<state, timer_start, total_time, time_start, str_check, marker, led,
           ev, pc, now, armed, expiry, calls, edge, dispatched, branch,
           boot_marker>>

(***************************************************************************)
(* Bounds of the model                                                     *)
(***************************************************************************)
MaxSec == 17
MaxBatch == 2
TicksPerSec == 2

Horizon == MaxSec * TicksPerSec

(***************************************************************************)
(* Program constants                                                       *)
(***************************************************************************)
TIMER1_EXPIRE == 10
TIMER1_INTERVAL == 2
NSEC_PER_SEC == 1000000000
SHORT_MAX == 5
MEDIUM_MAX == 10
LONG_MAX == 15

\* pb_monitor.sh: poll counts of a hold, at INTERVAL_PUSH_PERSEC polls a second
INTERVAL_PUSH_PERSEC == 20
COUNT_5_SEC == 100
COUNT_10_SEC == 200
COUNT_15_SEC == 300

PB_STATE_START == "PB_STATE_START"
PB_STATE_INUSE == "PB_STATE_INUSE"
pb_state == {PB_STATE_START, PB_STATE_INUSE}

LED_OFF == "LED_OFF"
LED_GREEN == "LED_GREEN"
LED_RED == "LED_RED"
LED_FLASH_GREEN == "LED_FLASH_GREEN"
LED_FLASH_RED == "LED_FLASH_RED"
led_state == {LED_OFF, LED_GREEN, LED_RED, LED_FLASH_GREEN, LED_FLASH_RED}
LedUnset == "unset"

str_sys_call_i2c_reset == "i2cset -f -y 0 0x20 0 0"
str_sys_call_opt_dir == "mkdir -p /opt/monitors/"
str_sys_call_check_factory_reset == "/usr/local/bin/check-factory-reset.sh "
str_sys_call_reboot == "reboot"
str_sys_call_shutdown == "shutdown -h now"
str_sys_call_led(l) ==
    CASE l = LED_OFF -> "./set_led.sh 0"
      [] l = LED_GREEN -> "./set_led.sh 1"
      [] l = LED_RED -> "./set_led.sh 2"
      [] l = LED_FLASH_GREEN -> "./set_led.sh 3"
      [] l = LED_FLASH_RED -> "./set_led.sh 4"
fopen_marker == "fopen /opt/monitors/fc-set"
remove_marker == "remove /opt/monitors/fc-set"

(***************************************************************************)
(* Time                                                                    *)
(***************************************************************************)
NsPerTick == NSEC_PER_SEC \div TicksPerSec

Zero == [tv_sec |-> 0, tv_nsec |-> 0]

\* clock_gettime(CLOCK_REALTIME, &ts) when the clock stands at tick t
clock_gettime(t) ==
    [tv_sec |-> t \div TicksPerSec, tv_nsec |-> (t % TicksPerSec) * NsPerTick]

timespec_diff(start, stop) ==
    IF stop.tv_nsec - start.tv_nsec < 0
    THEN [tv_sec |-> stop.tv_sec - start.tv_sec - 1,
          tv_nsec |-> stop.tv_nsec - start.tv_nsec + NSEC_PER_SEC]
    ELSE [tv_sec |-> stop.tv_sec - start.tv_sec,
          tv_nsec |-> stop.tv_nsec - start.tv_nsec]

\* (double)duration->tv_sec + ((double)duration->tv_nsec / 1000000000),
\* the double counted in ticks
ToDouble(duration) ==
    duration.tv_sec * TicksPerSec + duration.tv_nsec \div NsPerTick

\* StartSet with && for ||
StartSet_and(start) == start.tv_sec > 0 /\ start.tv_nsec > 0

\* the press interval is open: a start time is set
StartSet(start) == start.tv_sec > 0 \/ start.tv_nsec > 0

\* test_time without the test of the start time
test_time_unchecked(start, stop) == ToDouble(timespec_diff(start, stop))

\* test_time: 0 when no start time is set, else the time since start
test_time(start, stop) ==
    IF StartSet(start) THEN ToDouble(timespec_diff(start, stop)) ELSE 0

\* (unsigned long)total_time
ULong(x) == x \div TicksPerSec

\* a clock reading the program can obtain next: the timer signal is
\* delivered before the program sees a reading later than its expiry
CanReach(t) == t <= Horizon /\ (armed => t <= expiry)

(***************************************************************************)
(* process_time and process_end_time: the duration bands                   *)
(***************************************************************************)
\* process_time with > for >= at the 10 s band
process_time_gt10(seconds, st) ==
    IF st = PB_STATE_INUSE
    THEN IF seconds >= LONG_MAX THEN LED_FLASH_GREEN
         ELSE IF seconds > MEDIUM_MAX THEN LED_FLASH_RED
         ELSE IF seconds >= SHORT_MAX THEN LED_RED
         ELSE LedUnset
    ELSE LedUnset

\* process_time with a GREEN request for a hold below the 5 s band
process_time_green(seconds, st) ==
    IF st = PB_STATE_INUSE
    THEN IF seconds >= LONG_MAX THEN LED_FLASH_GREEN
         ELSE IF seconds >= MEDIUM_MAX THEN LED_FLASH_RED
         ELSE IF seconds >= SHORT_MAX THEN LED_RED
         ELSE LED_GREEN
    ELSE LedUnset

\* the LED process_time requests for a held duration, LedUnset when none
process_time(seconds, st) ==
    IF st = PB_STATE_INUSE
    THEN IF seconds >= LONG_MAX THEN LED_FLASH_GREEN
         ELSE IF seconds >= MEDIUM_MAX THEN LED_FLASH_RED
         ELSE IF seconds >= SHORT_MAX THEN LED_RED
         ELSE LedUnset
    ELSE LedUnset

\* process_end_time with > for >= at the 5 s band
process_end_time_gt5(seconds, st) ==
    IF seconds >= LONG_MAX THEN "cancel"
    ELSE IF seconds >= MEDIUM_MAX THEN "shutdown"
    ELSE IF seconds > SHORT_MAX THEN "schedule"
    ELSE IF st = PB_STATE_INUSE THEN "reboot"
    ELSE "factory"

\* process_end_time with > for >= at the 10 s band
process_end_time_gt10(seconds, st) ==
    IF seconds >= LONG_MAX THEN "cancel"
    ELSE IF seconds > MEDIUM_MAX THEN "shutdown"
    ELSE IF seconds >= SHORT_MAX THEN "schedule"
    ELSE IF st = PB_STATE_INUSE THEN "reboot"
    ELSE "factory"

\* process_end_time with > for >= at the 15 s band
process_end_time_gt15(seconds, st) ==
    IF seconds > LONG_MAX THEN "cancel"
    ELSE IF seconds >= MEDIUM_MAX THEN "shutdown"
    ELSE IF seconds >= SHORT_MAX THEN "schedule"
    ELSE IF st = PB_STATE_INUSE THEN "reboot"
    ELSE "factory"

\* the branch process_end_time takes
process_end_time(seconds, st) ==
    IF seconds >= LONG_MAX THEN "cancel"
    ELSE IF seconds >= MEDIUM_MAX THEN "shutdown"
    ELSE IF seconds >= SHORT_MAX THEN "schedule"
    ELSE IF st = PB_STATE_INUSE THEN "reboot"
    ELSE "factory"

(***************************************************************************)
(* Initial state: entry of main                                            *)
(***************************************************************************)
\* pb_monitor.sh at the entry of its IN-USE loop: variables as initialised,
\* status register cleared, LED on heartbeat, button up
ShStart ==
    [pc |-> "i2cget", R10 |-> FALSE, irq |-> FALSE, held |-> FALSE,
     nstate |-> 0, ncount |-> 0, ncountMax |-> 0, led |-> "heartbeat",
     act |-> "none", acted |-> 0, fc_set |-> FALSE, reset15 |-> FALSE]

Init ==
    /\ state = PB_STATE_START
    /\ timer_start = Zero
    /\ total_time = 0
    /\ time_start = 0
    /\ str_check = str_sys_call_check_factory_reset
    /\ marker \in BOOLEAN
    /\ boot_marker = marker
    /\ led = LedUnset
    /\ ev = <<>>
    /\ pc = "init"
    /\ now = TicksPerSec
    /\ armed = FALSE
    /\ expiry = 0
    /\ calls = <<>>
    /\ edge = "none"
    /\ dispatched = 0
    /\ branch = "none"
    /\ sh = ShStart

(***************************************************************************)
(* Start-up                                                                *)
(***************************************************************************)
pb_initialise ==
    /\ pc = "init"
    /\ pc' = "check"
    /\ calls' = <<str_sys_call_i2c_reset, str_sys_call_opt_dir>>
    /\ edge' = "init"
    /\ UNCHANGED <<state, timer_start, total_time, time_start, str_check,
                   marker, led, ev, now, armed, expiry, dispatched, branch,
                   boot_marker, sh>>

\* check_inuse_factory_reset without the write of state
check_inuse_factory_reset_nostate ==
    /\ pc = "check"
    /\ pc' = "make_timer"
    /\ edge' = "check"
    /\ IF ~marker
       THEN /\ led' = LED_RED
            /\ calls' = <<str_sys_call_led(LED_RED)>>
            /\ time_start' = TIMER1_EXPIRE
            /\ UNCHANGED <<marker, str_check>>
       ELSE /\ marker' = FALSE
            /\ str_check' = str_check \o "1"
            /\ time_start' = TIMER1_INTERVAL
            /\ led' = LED_FLASH_GREEN
            /\ calls' = <<remove_marker, str_check',
                          str_sys_call_led(LED_FLASH_GREEN)>>
    /\ UNCHANGED <<state, timer_start, total_time, ev, now, armed, expiry,
                   dispatched, branch, boot_marker, sh>>

check_inuse_factory_reset ==
    /\ pc = "check"
    /\ pc' = "make_timer"
    /\ edge' = "check"
    /\ IF ~marker
       THEN /\ led' = LED_RED
            /\ calls' = <<str_sys_call_led(LED_RED)>>
            /\ time_start' = TIMER1_EXPIRE
            /\ UNCHANGED <<marker, str_check, state>>
       ELSE /\ marker' = FALSE
            /\ str_check' = str_check \o "1"
            /\ time_start' = TIMER1_INTERVAL
            /\ state' = PB_STATE_INUSE
            /\ led' = LED_FLASH_GREEN
            /\ calls' = <<remove_marker, str_check',
                          str_sys_call_led(LED_FLASH_GREEN)>>
    /\ UNCHANGED <<timer_start, total_time, ev, now, armed, expiry, dispatched,
                   branch, boot_marker, sh>>

\* make_timer: sigaction, timer_create or timer_settime may fail; main
\* ignores the result
make_timer ==
    /\ pc = "make_timer"
    /\ pc' = "select"
    /\ calls' = <<>>
    /\ \E rc \in {0, -1}, set \in BOOLEAN :
          /\ edge' = IF rc = 0 THEN "make_timer" ELSE "make_timer failed"
          /\ armed' = (rc = 0 /\ set)
          /\ expiry' = IF armed' THEN now + time_start * TicksPerSec ELSE expiry
    /\ UNCHANGED <<state, timer_start, total_time, time_start, str_check,
                   marker, led, ev, now, dispatched, branch, boot_marker, sh>>

(***************************************************************************)
(* The timer signal handler                                                *)
(***************************************************************************)
\* timer_handler appending the flag of the factory-reset branch
timer_handler_flag1 ==
    /\ armed
    /\ now = expiry
    /\ expiry' = expiry + TIMER1_INTERVAL * TicksPerSec
    /\ edge' = "timer"
    /\ IF state = PB_STATE_START
       THEN /\ state' = PB_STATE_INUSE
            /\ led' = LED_FLASH_GREEN
            /\ str_check' = str_check \o "1"
            /\ calls' = <<str_sys_call_led(LED_FLASH_GREEN), str_check'>>
       ELSE /\ calls' = <<>>
            /\ UNCHANGED <<state, led, str_check>>
    /\ UNCHANGED <<timer_start, total_time, time_start, marker, ev, pc, now,
                   armed, dispatched, branch, boot_marker, sh>>

\* timer_handler without the write of state
timer_handler_nostate ==
    /\ armed
    /\ now = expiry
    /\ expiry' = expiry + TIMER1_INTERVAL * TicksPerSec
    /\ edge' = "timer"
    /\ IF state = PB_STATE_START
       THEN /\ led' = LED_FLASH_GREEN
            /\ str_check' = str_check \o "0"
            /\ calls' = <<str_sys_call_led(LED_FLASH_GREEN), str_check'>>
       ELSE /\ calls' = <<>>
            /\ UNCHANGED <<led, str_check>>
    /\ UNCHANGED <<state, timer_start, total_time, time_start, marker, ev, pc,
                   now, armed, dispatched, branch, boot_marker, sh>>

\* timer_handler without the test of state
timer_handler_always ==
    /\ armed
    /\ now = expiry
    /\ expiry' = expiry + TIMER1_INTERVAL * TicksPerSec
    /\ edge' = "timer"
    /\ state' = PB_STATE_INUSE
    /\ led' = LED_FLASH_GREEN
    /\ str_check' = str_check \o "0"
    /\ calls' = <<str_sys_call_led(LED_FLASH_GREEN), str_check'>>
    /\ UNCHANGED <<timer_start, total_time, time_start, marker, ev, pc, now,
                   armed, dispatched, branch, boot_marker, sh>>

timer_handler ==
    /\ armed
    /\ now = expiry
    /\ expiry' = expiry + TIMER1_INTERVAL * TicksPerSec
    /\ edge' = "timer"
    /\ IF state = PB_STATE_START
       THEN /\ state' = PB_STATE_INUSE
            /\ led' = LED_FLASH_GREEN
            /\ str_check' = str_check \o "0"
            /\ calls' = <<str_sys_call_led(LED_FLASH_GREEN), str_check'>>
       ELSE /\ calls' = <<>>
            /\ UNCHANGED <<state, led, str_check>>
    /\ UNCHANGED <<timer_start, total_time, time_start, marker, ev, pc, now,
                   armed, dispatched, branch, boot_marker, sh>>

(***************************************************************************)
(* The main loop                                                           *)
(***************************************************************************)
Events == {"press", "release", "other"}

Batches == UNION {[1..n -> Events] : n \in 1..MaxBatch}

\* the reading test_time obtains: it reads the clock only when a start
\* time is set
StopTick == IF StartSet(timer_start) THEN now + 1 ELSE now

\* select and read: the wait ends with a batch of events or with an error
\* (an interrupted or short read); total_time is dead here, it is assigned
\* before each of its uses
\* ReadEvents with the return statement of line 433 compiled in
ReadEvents_return ==
    /\ pc = "select"
    /\ \E t \in now..Horizon :
          /\ CanReach(t)
          /\ now' = t
    /\ \/ \E b \in Batches : ev' = b /\ pc' = "for" /\ edge' = "read"
       \/ ev' = <<>> /\ pc' = "exit" /\ edge' = "read error"
    /\ total_time' = 0
    /\ calls' = <<>>
    /\ dispatched' = 0
    /\ branch' = "none"
    /\ UNCHANGED <<state, timer_start, time_start, str_check, marker, led,
                   armed, expiry, boot_marker, sh>>

ReadEvents ==
    /\ pc = "select"
    /\ \E t \in now..Horizon :
          /\ CanReach(t)
          /\ now' = t
    /\ \/ \E b \in Batches : ev' = b /\ pc' = "for" /\ edge' = "read"
       \/ ev' = <<>> /\ pc' = "sample" /\ edge' = "read error"
    /\ total_time' = 0
    /\ calls' = <<>>
    /\ dispatched' = 0
    /\ branch' = "none"
    /\ UNCHANGED <<state, timer_start, time_start, str_check, marker, led,
                   armed, expiry, boot_marker, sh>>

ForEnd ==
    /\ pc = "for"
    /\ ev = <<>>
    /\ pc' = "sample"
    /\ edge' = "for end"
    /\ calls' = <<>>
    /\ UNCHANGED <<state, timer_start, total_time, time_start, str_check,
                   marker, led, ev, now, armed, expiry, dispatched, branch,
                   boot_marker, sh>>

\* an event that is not a press or release of the push button
\* SkipEvent with break in place of the continue of line 440
SkipEvent_break ==
    /\ pc = "for"
    /\ ev # <<>>
    /\ Head(ev) = "other"
    /\ ev' = Tail(ev)
    /\ pc' = "sample"
    /\ edge' = "other"
    /\ calls' = <<>>
    /\ UNCHANGED <<state, timer_start, total_time, time_start, str_check,
                   marker, led, now, armed, expiry, dispatched, branch,
                   boot_marker, sh>>

SkipEvent ==
    /\ pc = "for"
    /\ ev # <<>>
    /\ Head(ev) = "other"
    /\ ev' = Tail(ev)
    /\ edge' = "other"
    /\ calls' = <<>>
    /\ UNCHANGED <<state, timer_start, total_time, time_start, str_check,
                   marker, led, pc, now, armed, expiry, dispatched, branch,
                   boot_marker, sh>>

\* the press branch keeping the start time of an interval already open
PressEdge_keepfirst ==
    /\ pc = "for"
    /\ ev # <<>>
    /\ Head(ev) = "press"
    /\ CanReach(now + 1)
    /\ now' = now + 1
    /\ timer_start' = IF StartSet(timer_start) THEN timer_start
                      ELSE clock_gettime(now')
    /\ ev' = Tail(ev)
    /\ edge' = IF StartSet(timer_start) THEN "press again" ELSE "press"
    /\ calls' = <<>>
    /\ UNCHANGED <<state, total_time, time_start, str_check, marker, led, pc,
                   armed, expiry, dispatched, branch, boot_marker, sh>>

PressEdge ==
    /\ pc = "for"
    /\ ev # <<>>
    /\ Head(ev) = "press"
    /\ CanReach(now + 1)
    /\ now' = now + 1
    /\ timer_start' = clock_gettime(now')
    /\ ev' = Tail(ev)
    /\ edge' = IF StartSet(timer_start) THEN "press again" ELSE "press"
    /\ calls' = <<>>
    /\ UNCHANGED <<state, total_time, time_start, str_check, marker, led, pc,
                   armed, expiry, dispatched, branch, boot_marker, sh>>

\* a release for which test_time returns 0: "Invalid Time"
ReleaseInvalid ==
    /\ pc = "for"
    /\ ev # <<>>
    /\ Head(ev) = "release"
    /\ CanReach(StopTick)
    /\ now' = StopTick
    /\ total_time' = test_time(timer_start, clock_gettime(now'))
    /\ total_time' = 0
    /\ ev' = Tail(ev)
    /\ edge' = "release invalid"
    /\ calls' = <<>>
    /\ UNCHANGED <<state, timer_start, time_start, str_check, marker, led, pc,
                   armed, expiry, dispatched, branch, boot_marker, sh>>

\* a release for which test_time returns a duration: process_end_time, up
\* to its first write of shared state
ReleaseEdge ==
    /\ pc = "for"
    /\ ev # <<>>
    /\ Head(ev) = "release"
    /\ CanReach(StopTick)
    /\ now' = StopTick
    /\ total_time' = test_time(timer_start, clock_gettime(now'))
    /\ total_time' # 0
    /\ edge' = "release"
    /\ dispatched' = dispatched + 1
    /\ branch' = process_end_time(ULong(total_time'), state)
    /\ calls' = CASE branch' = "shutdown" -> <<str_sys_call_shutdown>>
                  [] branch' = "schedule" -> <<fopen_marker>>
                  [] branch' = "reboot" -> <<str_sys_call_reboot>>
                  [] OTHER -> <<>>
    /\ marker' = IF branch' = "schedule" THEN TRUE ELSE marker
    /\ pc' = IF branch' = "factory" THEN "pet_strcat" ELSE "reset"
    /\ UNCHANGED <<state, timer_start, time_start, str_check, led, ev, armed,
                   expiry, boot_marker, sh>>

\* process_end_time, STARTUP branch: strcat
PetStrcat ==
    /\ pc = "pet_strcat"
    /\ str_check' = str_check \o "1"
    /\ pc' = "pet_system"
    /\ edge' = "pet strcat"
    /\ calls' = <<>>
    /\ UNCHANGED <<state, timer_start, total_time, time_start, marker, led, ev,
                   now, armed, expiry, dispatched, branch, boot_marker, sh>>

\* process_end_time, STARTUP branch: system(check-factory-reset)
PetSystem ==
    /\ pc = "pet_system"
    /\ calls' = <<str_check>>
    /\ pc' = "pet_state"
    /\ edge' = "pet system"
    /\ UNCHANGED <<state, timer_start, total_time, time_start, str_check,
                   marker, led, ev, now, armed, expiry, dispatched, branch,
                   boot_marker, sh>>

\* the STARTUP branch without the write of state
PetState_nostate ==
    /\ pc = "pet_state"
    /\ led' = LED_FLASH_GREEN
    /\ calls' = <<str_sys_call_led(LED_FLASH_GREEN)>>
    /\ pc' = "reset"
    /\ edge' = "pet state"
    /\ UNCHANGED <<state, timer_start, total_time, time_start, str_check,
                   marker, ev, now, armed, expiry, dispatched, branch,
                   boot_marker, sh>>

\* the STARTUP branch writing the wrong enumerator
PetState_start ==
    /\ pc = "pet_state"
    /\ state' = PB_STATE_START
    /\ led' = LED_FLASH_GREEN
    /\ calls' = <<str_sys_call_led(LED_FLASH_GREEN)>>
    /\ pc' = "reset"
    /\ edge' = "pet state"
    /\ UNCHANGED <<timer_start, total_time, time_start, str_check, marker, ev,
                   now, armed, expiry, dispatched, branch, boot_marker, sh>>

\* process_end_time, STARTUP branch: mode and LED
PetState ==
    /\ pc = "pet_state"
    /\ state' = PB_STATE_INUSE
    /\ led' = LED_FLASH_GREEN
    /\ calls' = <<str_sys_call_led(LED_FLASH_GREEN)>>
    /\ pc' = "reset"
    /\ edge' = "pet state"
    /\ UNCHANGED <<timer_start, total_time, time_start, str_check, marker, ev,
                   now, armed, expiry, dispatched, branch, boot_marker, sh>>

\* the reset after process_end_time without the LED request
ReleaseReset_noled ==
    /\ pc = "reset"
    /\ timer_start' = Zero
    /\ calls' = <<>>
    /\ ev' = Tail(ev)
    /\ pc' = "for"
    /\ edge' = "released"
    /\ UNCHANGED <<state, total_time, time_start, str_check, marker, led, now,
                   armed, expiry, dispatched, branch, boot_marker, sh>>

\* after process_end_time: clear the start time, LED back to heartbeat
ReleaseReset ==
    /\ pc = "reset"
    /\ timer_start' = Zero
    /\ led' = LED_FLASH_GREEN
    /\ calls' = <<str_sys_call_led(LED_FLASH_GREEN)>>
    /\ ev' = Tail(ev)
    /\ pc' = "for"
    /\ edge' = "released"
    /\ UNCHANGED <<state, total_time, time_start, str_check, marker, now,
                   armed, expiry, dispatched, branch, boot_marker, sh>>

\* end of the loop body: the time so far drives the LED
Sample ==
    /\ pc = "sample"
    /\ pc' = "select"
    /\ CanReach(StopTick)
    /\ now' = StopTick
    /\ total_time' = test_time(timer_start, clock_gettime(now'))
    /\ LET l == IF total_time' # 0
                THEN process_time(ULong(total_time'), state)
                ELSE LedUnset IN
          /\ led' = IF l = LedUnset THEN led ELSE l
          /\ calls' = IF l = LedUnset THEN <<>> ELSE <<str_sys_call_led(l)>>
    /\ edge' = IF total_time' # 0 THEN "sample" ELSE "idle"
    /\ UNCHANGED <<state, timer_start, time_start, str_check, marker, ev,
                   armed, expiry, dispatched, branch, boot_marker, sh>>

Next ==
    \/ pb_initialise
    \/ check_inuse_factory_reset
    \/ make_timer
    \/ timer_handler
    \/ ReadEvents
    \/ ForEnd
    \/ SkipEvent
    \/ PressEdge
    \/ ReleaseInvalid
    \/ ReleaseEdge
    \/ PetStrcat
    \/ PetSystem
    \/ PetState
    \/ ReleaseReset
    \/ Sample

Spec == Init /\ [][Next]_vars

TypeOK ==
    /\ state \in pb_state
    /\ led \in led_state \cup {LedUnset}
    /\ now \in 0..Horizon
    /\ dispatched \in 0..MaxBatch
    /\ Len(ev) <= MaxBatch
    /\ total_time >= 0

(***************************************************************************)
(* Vocabulary of the properties                                            *)
(***************************************************************************)
\* the tick at which a timestamp was read
TickOf(ts) == ts.tv_sec * TicksPerSec + ts.tv_nsec \div NsPerTick

\* whole seconds between the recorded press and tick t
HeldSeconds(t) == (t - TickOf(timer_start)) \div TicksPerSec

\* the step is taken by the main loop, not by the signal handler
MainStep == edge' # "timer"

\* the main loop handles a release edge / a press edge
ReleaseStep == pc = "for" /\ ev # <<>> /\ Head(ev) = "release" /\ MainStep
PressStep == pc = "for" /\ ev # <<>> /\ Head(ev) = "press" /\ MainStep

\* a press interval is open
Open == timer_start # Zero

Called(c, cs) == \E i \in DOMAIN cs : cs[i] = c

\* the check-factory-reset command lines the buffer can hold
CheckCommands ==
    {str_sys_call_check_factory_reset \o f :
        f \in {"", "0", "1", "00", "01", "10", "11"}}

\* the command lines that carry the reset flag of the factory-reset branch
ResetCommands ==
    {str_sys_call_check_factory_reset \o f : f \in {"1", "01", "10"}}

SystemAction(cs) ==
    \/ Called(str_sys_call_reboot, cs)
    \/ Called(str_sys_call_shutdown, cs)
    \/ \E c \in ResetCommands : Called(c, cs)

\* the effect of the IN_USE table's row for d >= 5 seconds
LongRow(d) ==
    /\ (5 <= d /\ d < 10) => (calls' = <<fopen_marker>> /\ marker')
    /\ (10 <= d /\ d < 15) =>
          (calls' = <<str_sys_call_shutdown>> /\ marker' = marker)
    /\ d >= 15 => (calls' = <<>> /\ marker' = marker)

(***************************************************************************)
(* C1: in mode IN_USE the release of a press held d whole seconds selects  *)
(* exactly one outcome: reboot when d < 5, the marker file when            *)
(* 5 <= d < 10, shutdown when 10 <= d < 15, nothing when d >= 15.          *)
(***************************************************************************)
C1_DispatchInUse ==
    [][(ReleaseStep /\ Open /\ state = PB_STATE_INUSE) =>
          LET d == HeldSeconds(now') IN
             /\ pc' = "reset"
             /\ state' = state
             /\ d < 5 => (calls' = <<str_sys_call_reboot>> /\ marker' = marker)
             /\ LongRow(d)]_vars

C1_Witness ==
    /\ edge = "release"
    /\ state = PB_STATE_INUSE
    /\ HeldSeconds(now) = 5
    /\ calls = <<fopen_marker>>
    /\ marker

C3_Original ==
    (edge = "released" /\ branch \in {"schedule", "shutdown", "cancel"}) =>
        state = PB_STATE_INUSE

(***************************************************************************)
(* C3 amended: a release of a press held 5 s or more, dispatched while the *)
(* mode is STARTUP, takes the action of the IN_USE table, and the handling *)
(* of that release leaves the mode as it is.                               *)
(***************************************************************************)
C3_StartupLong ==
    [][/\ (ReleaseStep /\ Open /\ state = PB_STATE_START
              /\ HeldSeconds(now') >= 5) =>
             /\ pc' = "reset"
             /\ state' = PB_STATE_START
             /\ LongRow(HeldSeconds(now'))
       /\ (pc = "reset" /\ branch # "factory" /\ MainStep) =>
             (state' = state /\ pc' = "for")]_vars

C3_Witness ==
    /\ edge = "released"
    /\ branch = "cancel"
    /\ state = PB_STATE_START

(***************************************************************************)
(* C4: handling a press edge dispatches nothing; handling a release edge   *)
(* while a press interval is open calls process_end_time exactly once and  *)
(* closes the interval.                                                    *)
(***************************************************************************)
C4_OneDispatchPerRelease ==
    [][/\ PressStep =>
             /\ dispatched' = dispatched
             /\ calls' = <<>>
             /\ pc' = "for"
             /\ UNCHANGED <<state, marker, str_check, led>>
       /\ (ReleaseStep /\ Open) =>
             /\ dispatched' = dispatched + 1
             /\ pc' \in {"reset", "pet_strcat"}
             /\ ev' = ev
       /\ pc \in {"pet_strcat", "pet_system", "pet_state", "reset"} =>
             dispatched' = dispatched
       /\ (pc \in {"pet_strcat", "pet_system", "pet_state"} /\ MainStep) =>
             (pc' # "for" /\ ev' = ev)
       /\ (pc = "reset" /\ MainStep) =>
             (pc' = "for" /\ ev' = Tail(ev) /\ timer_start' = Zero)]_vars

C4_Witness ==
    /\ edge = "released"
    /\ dispatched = 1
    /\ ~Open
    /\ branch = "reboot"

(***************************************************************************)
(* C5: a release edge that arrives while no press interval is open         *)
(* dispatches nothing, creates no marker, leaves the mode and the interval *)
(* unchanged, and the loop goes on to the next event.                      *)
(***************************************************************************)
C5_ReleaseWithoutPress ==
    [][(ReleaseStep /\ ~Open) =>
          /\ dispatched' = dispatched
          /\ calls' = <<>>
          /\ pc' = "for"
          /\ ev' = Tail(ev)
          /\ UNCHANGED <<state, marker, timer_start, str_check, led>>]_vars

C5_Witness ==
    /\ edge = "release invalid"
    /\ ~Open
    /\ dispatched = 1

(***************************************************************************)
(* C6: once the mode is IN_USE it stays IN_USE: the mode only ever changes *)
(* from STARTUP to IN_USE.                                                 *)
(***************************************************************************)
C6_ModeOneWay ==
    [][state = PB_STATE_INUSE => state' = PB_STATE_INUSE]_vars

C6_Witness ==
    /\ edge = "pet state"
    /\ state = PB_STATE_INUSE
    /\ str_check = str_sys_call_check_factory_reset \o "01"

(***************************************************************************)
(* C7: with no marker at start, the expiry of the grace timer before any   *)
(* press makes the mode IN_USE, requests LED FLASH_GREEN and invokes no    *)
(* reboot, shutdown or factory reset (the check-factory-reset command is   *)
(* run with flag 0).                                                       *)
(***************************************************************************)
C7_GraceExpiry ==
    [][(edge' = "timer" /\ ~boot_marker /\ state = PB_STATE_START
           /\ str_check = str_sys_call_check_factory_reset) =>
          /\ state' = PB_STATE_INUSE
          /\ led' = LED_FLASH_GREEN
          /\ calls' = <<str_sys_call_led(LED_FLASH_GREEN),
                        str_sys_call_check_factory_reset \o "0">>
          /\ ~SystemAction(calls')
          /\ UNCHANGED <<marker, timer_start, pc, ev>>]_vars

C7_Witness ==
    /\ edge = "timer"
    /\ ~boot_marker
    /\ pc = "select"
    /\ ~Open
    /\ dispatched = 0
    /\ now = (1 + TIMER1_EXPIRE) * TicksPerSec
    /\ state = PB_STATE_INUSE
    /\ led = LED_FLASH_GREEN
    /\ str_check = str_sys_call_check_factory_reset \o "0"

(***************************************************************************)
(* C8: with the marker present at start, start-up removes the marker, runs *)
(* the check-factory-reset command with flag 1 once, sets the mode IN_USE  *)
(* and requests LED FLASH_GREEN before any event is read; afterwards no    *)
(* step runs the command again or changes the mode.                        *)
(***************************************************************************)
C8_MarkerAtStart ==
    [][boot_marker =>
          /\ pc = "check" =>
                /\ pc' = "make_timer"
                /\ ~marker'
                /\ state' = PB_STATE_INUSE
                /\ led' = LED_FLASH_GREEN
                /\ calls' = <<remove_marker,
                              str_sys_call_check_factory_reset \o "1",
                              str_sys_call_led(LED_FLASH_GREEN)>>
          /\ pc \notin {"init", "check"} =>
                /\ state' = state
                /\ str_check' = str_check
                /\ \A c \in CheckCommands : ~Called(c, calls')]_vars

C8_Witness ==
    /\ boot_marker
    /\ edge = "timer"
    /\ now = (1 + TIMER1_INTERVAL) * TicksPerSec
    /\ state = PB_STATE_INUSE
    /\ ~marker
    /\ calls = <<>>
    /\ str_check = str_sys_call_check_factory_reset \o "1"

(***************************************************************************)
(* C9: in the control loop a step creates the marker if and only if it is  *)
(* the dispatch of a release of a press held 5 <= d < 10 whole seconds;    *)
(* the handling of such a release invokes no reboot, shutdown or factory   *)
(* reset.                                                                  *)
(***************************************************************************)
C9_MarkerBand ==
    [][pc \notin {"init", "check", "make_timer"} =>
          /\ Called(fopen_marker, calls') <=>
                /\ ReleaseStep
                /\ Open
                /\ 5 <= HeldSeconds(now')
                /\ HeldSeconds(now') < 10
          /\ Called(fopen_marker, calls') =>
                (marker' /\ calls' = <<fopen_marker>> /\ pc' = "reset")
          /\ ~Called(fopen_marker, calls') => marker' = marker
          /\ (pc = "reset" /\ branch = "schedule" /\ MainStep) =>
                (~SystemAction(calls') /\ pc' = "for")]_vars

C9_Witness ==
    /\ edge = "released"
    /\ branch = "schedule"
    /\ ULong(total_time) = 9
    /\ marker
    /\ ~boot_marker
    /\ state = PB_STATE_INUSE

(***************************************************************************)
(* C10: in mode IN_USE a sample taken while a press is open and held d     *)
(* whole seconds requests RED when 5 <= d < 10, FLASH_RED when             *)
(* 10 <= d < 15 and FLASH_GREEN when d >= 15.                              *)
(***************************************************************************)
C10_HoldLed ==
    [][(pc = "sample" /\ MainStep /\ Open /\ state = PB_STATE_INUSE) =>
          LET d == HeldSeconds(now') IN
             /\ (5 <= d /\ d < 10) =>
                   (led' = LED_RED /\ calls' = <<str_sys_call_led(LED_RED)>>)
             /\ (10 <= d /\ d < 15) =>
                   /\ led' = LED_FLASH_RED
                   /\ calls' = <<str_sys_call_led(LED_FLASH_RED)>>
             /\ d >= 15 =>
                   /\ led' = LED_FLASH_GREEN
                   /\ calls' = <<str_sys_call_led(LED_FLASH_GREEN)>>]_vars

C10_Witness ==
    /\ edge = "sample"
    /\ state = PB_STATE_INUSE
    /\ Open
    /\ HeldSeconds(now) = 10
    /\ led = LED_FLASH_RED
(***************************************************************************)
(* C11 as stated: in mode IN_USE a sample taken while a press is open and  *)
(* held less than 5 s leaves LED GREEN requested.                          *)
(***************************************************************************)
C11_Original ==
    (edge = "sample" /\ state = PB_STATE_INUSE /\ Open
        /\ HeldSeconds(now) < 5) => led = LED_GREEN

(***************************************************************************)
(* C11 amended: in mode IN_USE a sample taken while a press is open and    *)
(* held less than 5 s makes no LED request: the LED request stays what it  *)
(* was.                                                                    *)
(***************************************************************************)
C11_ShortHoldNoRequest ==
    [][(pc = "sample" /\ MainStep /\ Open /\ state = PB_STATE_INUSE
           /\ HeldSeconds(now') < 5) =>
          (calls' = <<>> /\ led' = led /\ led' # LED_GREEN)]_vars

C11_Witness ==
    /\ edge = "sample"
    /\ state = PB_STATE_INUSE
    /\ Open
    /\ HeldSeconds(now) = 4
    /\ calls = <<>>
    /\ led = LED_FLASH_GREEN

(***************************************************************************)
(* C12: the handling of a release with an open press ends, in either mode  *)
(* and in every band, with the LED request FLASH_GREEN, and while the      *)
(* interval stays closed no sample makes a request: the LED request only   *)
(* changes to FLASH_GREEN until the next press.                            *)
(***************************************************************************)
C12_LedAfterRelease ==
    [][/\ (pc = "reset" /\ MainStep) =>
             /\ led' = LED_FLASH_GREEN
             /\ calls' = <<str_sys_call_led(LED_FLASH_GREEN)>>
             /\ ~Open'
       /\ (pc = "sample" /\ MainStep /\ ~Open) =>
             (calls' = <<>> /\ led' = led)
       /\ (pc \notin {"init", "check", "make_timer"} /\ ~Open /\ ~Open') =>
             (led' = led \/ led' = LED_FLASH_GREEN)]_vars

C12_Witness ==
    /\ edge = "idle"
    /\ branch = "cancel"
    /\ dispatched = 1
    /\ led = LED_FLASH_GREEN
    /\ state = PB_STATE_INUSE
(***************************************************************************)
(* C13 as stated: a press edge handled while a press interval is open      *)
(* leaves the recorded start time as it is.                                *)
(***************************************************************************)
C13_Original ==
    [][(PressStep /\ Open) => timer_start' = timer_start]_vars

(***************************************************************************)
(* C13 amended: every press edge, also one handled while a press interval  *)
(* is open, records a new, later start time, and the duration computed at  *)
(* the following release is measured from the start time recorded last.    *)
(***************************************************************************)
C13_PressRestarts ==
    [][/\ PressStep =>
             /\ TickOf(timer_start') = now'
             /\ now' > now
             /\ Open => TickOf(timer_start') > TickOf(timer_start)
       /\ (ReleaseStep /\ Open) =>
             total_time' = now' - TickOf(timer_start)
       /\ (pc = "sample" /\ MainStep /\ Open) =>
             total_time' = now' - TickOf(timer_start)]_vars

C13_Witness ==
    /\ edge = "press again"
    /\ Open
    /\ TickOf(timer_start) = now
(***************************************************************************)
(* C14: the timer handler never runs between the main loop's read of the   *)
(* mode in the release dispatch (line 288) and the main loop's own write   *)
(* of the mode (line 302).                                                 *)
(***************************************************************************)
C14_HandlerOutsideDispatch ==
    ~(pc \in {"pet_strcat", "pet_system", "pet_state"} /\ edge = "timer")
(***************************************************************************)
(* C15: when make_timer fails (it returns -1 because the signal handler or *)
(* the timer could not be created) the process has terminated and is never *)
(* at a position inside the control loop.                                  *)
(***************************************************************************)
C15_FailedStartExits ==
    edge = "make_timer failed" => pc \notin {"select", "for", "sample", "reset",
                                             "pet_strcat", "pet_system", "pet_state"}
\* the positions of the control loop, lines 419-485
LoopPc == {"select", "for", "pet_strcat", "pet_system", "pet_state", "reset",
           "sample"}

(***************************************************************************)
(* C16: once the control loop is entered no step leaves it.  A failed or   *)
(* interrupted read goes on to the sample of the same iteration, a release *)
(* with no matching press goes on with the next event, a timer tick leaves *)
(* the main loop where it was, and the sample goes back to the read; none  *)
(* of these steps changes the mode or the recorded press start, and the    *)
(* read error and the invalid release make no external call.               *)
(***************************************************************************)
C16_LoopSurvives ==
    [][/\ pc \in LoopPc => pc' \in LoopPc
       /\ edge' = "read error" =>
             /\ pc = "select" /\ pc' = "sample"
             /\ calls' = <<>>
             /\ UNCHANGED <<state, timer_start, marker, led, str_check>>
       /\ edge' = "release invalid" =>
             /\ pc = "for" /\ pc' = "for"
             /\ calls' = <<>>
             /\ UNCHANGED <<state, timer_start, marker, led, str_check>>
       /\ edge' = "timer" => UNCHANGED <<pc, ev, timer_start>>
       /\ (pc = "sample" /\ MainStep) =>
             /\ pc' = "select"
             /\ UNCHANGED <<state, timer_start>>]_vars

\* a read error taken in IN-USE while a press is open
C16_Witness ==
    /\ edge = "read error"
    /\ pc = "sample"
    /\ Open
    /\ state = PB_STATE_INUSE
(***************************************************************************)
(* The polling variant pb_monitor.sh, IN-USE loop (lines 137-208).         *)
(*                                                                         *)
(* The button is read through bit 0x10 of the interrupt status register,   *)
(* which the controller sets on every change of the button and the script  *)
(* clears after reading it.  One iteration is two steps, the read of the   *)
(* register and the rest of the loop body, so that the button can change   *)
(* between the read and the clear.  A hold is measured in iterations.      *)
(* The loop goes on polling after shutdown or reboot has been called.      *)
(***************************************************************************)

\* the button is pressed or released: IRQ_GPIO_CHANGE is latched
ShToggle ==
    /\ sh' = [sh EXCEPT !.held = ~sh.held, !.irq = TRUE]
    /\ UNCHANGED cvars

\* R10=$(i2cget -f -y 0 0x20 10)
ShReadIrq ==
    /\ sh.pc = "i2cget"
    /\ sh' = [sh EXCEPT !.pc = "body", !.R10 = sh.irq]
    /\ UNCHANGED cvars

\* "if we got an IRQ_GPIO_CHANGE": a change seen with nstate 0 is taken as
\* the press, a change seen with nstate 1 as the release
ShInterrupt(s) ==
    IF s.R10
    THEN IF s.nstate = 0
         THEN [s EXCEPT !.nstate = 1, !.irq = FALSE, !.reset15 = FALSE]
         ELSE [s EXCEPT !.led = "heartbeat", !.nstate = 0,
                        !.ncountMax = s.ncount, !.ncount = 0, !.irq = FALSE,
                        !.reset15 = FALSE]
    ELSE s

\* "Process counts"; reset15 keeps that the count reached COUNT_15_SEC and
\* no change of the button has been handled since
ShCounts(s) ==
    IF s.nstate = 1
    THEN LET n == s.ncount + 1
             l == IF n = COUNT_10_SEC THEN "flash red"
                  ELSE IF n = COUNT_5_SEC THEN "red"
                  ELSE s.led
         IN  IF n = COUNT_15_SEC
             THEN [s EXCEPT !.nstate = 0, !.ncountMax = 0, !.ncount = 0,
                            !.led = "heartbeat", !.reset15 = TRUE]
             ELSE [s EXCEPT !.ncount = n, !.led = l]
    ELSE s

\* "Act on interval of press"; act and acted keep the action taken and the
\* count it was taken on
ShAct(s) ==
    IF s.ncountMax > 0
    THEN LET a == IF s.ncountMax > INTERVAL_PUSH_PERSEC * 10 THEN "shutdown"
                  ELSE IF s.ncountMax > INTERVAL_PUSH_PERSEC * 5 THEN "schedule"
                  ELSE "reboot"
         IN  [s EXCEPT !.act = a, !.acted = s.ncountMax,
                       !.fc_set = (s.fc_set \/ a = "schedule"),
                       !.ncountMax = 0, !.nstate = 0]
    ELSE [s EXCEPT !.act = "none", !.acted = 0]

\* the loop body after the read of the register
ShIterate ==
    /\ sh.pc = "body"
    /\ sh' = [ShAct(ShCounts(ShInterrupt(sh))) EXCEPT !.pc = "i2cget"]
    /\ UNCHANGED cvars

InitSh == Init /\ marker = FALSE

NextSh ==
    \/ ShToggle
    \/ ShReadIrq
    \/ ShIterate

SpecSh == InitSh /\ [][NextSh]_vars

(***************************************************************************)
(* C17: in the polling variant a release on the 5 s count (the count on    *)
(* which the LED was turned red) schedules the factory reset, and a        *)
(* release on the 10 s count (the count on which the LED was set flashing  *)
(* red) shuts down.                                                        *)
(***************************************************************************)
C17_ClosedBands ==
    /\ sh.acted = COUNT_5_SEC => sh.act = "schedule"
    /\ sh.acted = COUNT_10_SEC => sh.act = "shutdown"
\* the main loop is handling the events of the last read
Handling == pc \in {"for", "pet_strcat", "pet_system", "pet_state", "reset"}

(***************************************************************************)
(* C18: in an iteration of the main loop the events read are handled head  *)
(* first and the loop goes to the sample only when none is left; the       *)
(* sample is one step that leads back to the read.  A matched release      *)
(* closes the press interval, and with no interval open the sample makes   *)
(* no LED request; with an interval open, as after a press handled last,   *)
(* the sample measures the time since that press.                          *)
(***************************************************************************)
C18_EdgesThenSample ==
    [][/\ (Handling /\ ev # <<>> /\ MainStep) =>
             /\ pc' \in {"for", "pet_strcat", "pet_system", "pet_state", "reset"}
             /\ ev' = ev \/ ev' = Tail(ev)
       /\ PressStep => ev' = Tail(ev) /\ Open' /\ TickOf(timer_start') = now'
       /\ edge' = "released" => ev' = Tail(ev) /\ Head(ev) = "release" /\ ~Open'
       /\ (pc = "for" /\ ev = <<>> /\ MainStep) =>
             /\ pc' = "sample"
             /\ calls' = <<>>
             /\ UNCHANGED <<timer_start, led, state, ev>>
       /\ (pc' = "sample" /\ pc # "sample") => ev' = <<>>
       /\ (pc = "sample" /\ MainStep) =>
             /\ pc' = "select"
             /\ ~Open => calls' = <<>> /\ led' = led /\ total_time' = 0
             /\ Open => /\ total_time' = now' - TickOf(timer_start)
                        /\ total_time' > 0
                        /\ edge' = "sample"]_vars

\* a release and a new press were handled in one iteration, and the sample
\* taken after them measured the new press
C18_Witness ==
    /\ edge = "sample"
    /\ dispatched = 1
    /\ Open
    /\ total_time = 1
    /\ TickOf(timer_start) = now - 1
(***************************************************************************)
(* C20: a run of the timer handler leaves the recorded press start and the *)
(* measured duration as they were, in either mode; run in IN-USE it makes  *)
(* no external call and changes no variable of the program; a run that has *)
(* an effect is a run in STARTUP, it ends in IN-USE, and the mode never    *)
(* goes back to STARTUP.                                                   *)
(***************************************************************************)
C20_HandlerFrame ==
    [][/\ edge' = "timer" =>
             /\ UNCHANGED <<timer_start, total_time, time_start, marker, ev,
                            pc, now>>
             /\ state = PB_STATE_INUSE =>
                   /\ calls' = <<>>
                   /\ UNCHANGED <<state, led, str_check>>
             /\ calls' # <<>> =>
                   /\ state = PB_STATE_START
                   /\ state' = PB_STATE_INUSE
       /\ state = PB_STATE_INUSE => state' = PB_STATE_INUSE]_vars

\* a later run of the handler, in IN-USE with a press open, after its run
\* in STARTUP
C20_Witness ==
    /\ edge = "timer"
    /\ state = PB_STATE_INUSE
    /\ calls = <<>>
    /\ Open
    /\ str_check = str_sys_call_check_factory_reset \o "0"
    /\ now >= (TIMER1_EXPIRE + TIMER1_INTERVAL) * TicksPerSec
(***************************************************************************)
(* The program under the scheduling it runs with: the main loop keeps      *)
(* taking steps, the kernel delivers the signal of an expired timer, and   *)
(* time passes, that is, the loop does not go round for ever on reads that *)
(* take no time.                                                           *)
(***************************************************************************)
FairSpec ==
    /\ Spec
    /\ WF_vars(Next)
    /\ WF_vars(timer_handler)
    /\ SF_vars(ReadEvents /\ now' > now)

(***************************************************************************)
(* C19: once the grace timer is armed in STARTUP the mode becomes IN-USE,  *)
(* whatever edges arrive; and after start-up the mode changes only from    *)
(* STARTUP to IN-USE, either in a run of the timer handler or in the       *)
(* dispatch of a release edge.                                             *)
(***************************************************************************)
C19_GraceExpiry ==
    /\ (armed /\ state = PB_STATE_START) ~> (state = PB_STATE_INUSE)
    /\ [][(pc \notin {"init", "check"} /\ state' # state) =>
             /\ state = PB_STATE_START
             /\ state' = PB_STATE_INUSE
             /\ \/ edge' = "timer" /\ now = expiry
                \/ pc = "pet_state" /\ ev # <<>> /\ Head(ev) = "release"]_vars

\* the grace timer expired while a press was open: the handler moved the
\* mode to IN-USE with no release handled
C19_Witness ==
    /\ edge = "timer"
    /\ state = PB_STATE_INUSE
    /\ calls # <<>>
    /\ Open
    /\ dispatched = 0
    /\ now = TicksPerSec + TIMER1_EXPIRE * TicksPerSec
(***************************************************************************)
(* C21: whenever the check-factory-reset command is executed, the command  *)
(* buffer holds exactly one appended flag character, "0" or "1".           *)
(***************************************************************************)
C21_OneFlag ==
    \A i \in DOMAIN calls :
        calls[i] \in CheckCommands =>
            calls[i] \in {str_sys_call_check_factory_reset \o "0",
                          str_sys_call_check_factory_reset \o "1"}
(***************************************************************************)
(* C22: in IN-USE, when a release is dispatched as schedule-reset,         *)
(* shutdown or cancel, the LED last requested is the one of that band:     *)
(* RED, FLASH_RED or FLASH_GREEN.  Stated for the runs that start with the *)
(* marker present, which are in IN-USE from the start, and in which the    *)
(* 2 s timer is running, so that the loop wakes up during the hold.        *)
(***************************************************************************)
C22_LedAgrees ==
    (edge = "release" /\ state = PB_STATE_INUSE /\ armed /\ boot_marker) =>
        /\ branch = "schedule" => led = LED_RED
        /\ branch = "shutdown" => led = LED_FLASH_RED
        /\ branch = "cancel" => led = LED_FLASH_GREEN
(***************************************************************************)
(* C23: in the polling variant, after a hold that reached the 15 s count   *)
(* the poll that sees the release of the button leaves nstate at 0, starts *)
(* no count, changes no LED and dispatches no action.                      *)
(***************************************************************************)
C23_ReleaseAfterReset ==
    [][(sh.pc = "body" /\ sh.R10 /\ sh.reset15 /\ sh.held = FALSE) =>
          /\ sh'.nstate = 0
          /\ sh'.ncount = 0
          /\ sh'.led = sh.led
          /\ sh'.act = "none"]_vars
====
